---- MODULE Spec2Model ----
(***************************************************************************)
(* A model of pq's value codec (encode.go): encode / decode dispatch with  *)
(* the float and time formats of the library it calls, the timestamp       *)
(* parser parseTs, the bytea codec, the COPY text escaper and NullTime.    *)
(*                                                                         *)
(* Go strings and []byte are sequences of byte values 0..255.  A call of   *)
(* the codec ends in one of three ways, kept apart in every result:        *)
(*   "ok"     the function returned a value,                               *)
(*   "errorf" the function called errorf (the codec's own decode error),   *)
(*   "panic"  the Go runtime faulted (index or slice bounds out of range). *)
(* TLC's integers are 32 bit wide, so every number an input makes the      *)
(* model compute stays below 2^31.                                         *)
(***************************************************************************)
EXTENDS Integers, Sequences, FiniteSets, TLC

VARIABLES pc, arg, wire, ret, nt, scanned, scanErr, valueOut

vars == <<pc, arg, wire, ret, nt, scanned, scanErr, valueOut>>

(***************************************************************************)
(* Notation: character codes and byte strings.                             *)
(***************************************************************************)
Digits == <<"0", "1", "2", "3", "4", "5", "6", "7", "8", "9">>

Upper ==
  <<"A", "B", "C", "D", "E", "F", "G", "H", "I", "J", "K", "L", "M",
    "N", "O", "P", "Q", "R", "S", "T", "U", "V", "W", "X", "Y", "Z">>

Lower ==
  <<"a", "b", "c", "d", "e", "f", "g", "h", "i", "j", "k", "l", "m",
    "n", "o", "p", "q", "r", "s", "t", "u", "v", "w", "x", "y", "z">>

Range(t) == {t[i] : i \in 1..Len(t)}

IndexIn(t, c) == CHOOSE i \in 1..Len(t) : t[i] = c

Chars ==
  Range(Digits) \cup Range(Upper) \cup Range(Lower)
    \cup {"\t", "\n", "\r", " ", "+", ",", "-", ".", "/", ":", "\\", "_"}

OrdTable ==
  [c \in Chars |->
     CASE c = "\t" -> 9
       [] c = "\n" -> 10
       [] c = "\r" -> 13
       [] c = " " -> 32
       [] c = "+" -> 43
       [] c = "," -> 44
       [] c = "-" -> 45
       [] c = "." -> 46
       [] c = "/" -> 47
       [] c = ":" -> 58
       [] c = "\\" -> 92
       [] c = "_" -> 95
       [] c \in Range(Digits) -> 47 + IndexIn(Digits, c)
       [] c \in Range(Upper) -> 64 + IndexIn(Upper, c)
       [] c \in Range(Lower) -> 96 + IndexIn(Lower, c)]

\* The byte value of a one-character string.
Ord(c) == OrdTable[c]

\* The byte string of a tuple of one-character strings.
Bytes(t) == [i \in 1..Len(t) |-> Ord(t[i])]

\* The characters the code names.
Tab == 9
Newline == 10
Return == 13
Space == 32
Plus == 43
Dash == 45
Dot == 46
Colon == 58
Backslash == 92
LetterT == 116
LetterX == 120

\* '0' <= b <= '9'
IsDigit(b) == b >= 48 /\ b <= 57

\* All sequences over alphabet A of length at most n.
RECURSIVE SeqsUpTo(_, _)
SeqsUpTo(A, n) ==
  IF n = 0 THEN {<<>>}
  ELSE LET S == SeqsUpTo(A, n - 1)
       IN S \cup {Append(s, a) : s \in {x \in S : Len(x) = n - 1}, a \in A}

(***************************************************************************)
(* Results of a call.                                                      *)
(***************************************************************************)
Ok(v) == [kind |-> "ok", val |-> v]
Errorf(why) == [kind |-> "errorf", why |-> why]
Panic(why) == [kind |-> "panic", why |-> why]
NoResult == [kind |-> "none"]

\* Go's s[a:b] on a string or slice of length Len(s): a runtime panic unless
\* 0 <= a <= b <= len(s).
SliceOK(s, a, b) == 0 <= a /\ a <= b /\ b <= Len(s)
Slice(s, a, b) == SubSeq(s, a + 1, b)

\* bytes.IndexByte / strings.IndexRune: the 0-based index of the first c, or -1.
IndexByte(s, c) ==
  IF \E i \in 1..Len(s) : s[i] = c
  THEN (CHOOSE i \in 1..Len(s) : s[i] = c /\ \A j \in 1..(i - 1) : s[j] # c) - 1
  ELSE -1

\* strings.IndexAny: the 0-based index of the first byte of s that is in cs, or -1.
IndexAny(s, cs) ==
  IF \E i \in 1..Len(s) : s[i] \in cs
  THEN (CHOOSE i \in 1..Len(s) : s[i] \in cs /\ \A j \in 1..(i - 1) : s[j] \notin cs) - 1
  ELSE -1

(***************************************************************************)
(* strconv: ParseUint, ParseInt, Atoi, and fmt's %d, %x, %03o.             *)
(***************************************************************************)
\* The value of a digit character in ParseUint: 0-9, then a-z and A-Z as 10..35;
\* any other byte is no digit (36).
DigitVal(b) ==
  IF IsDigit(b) THEN b - 48
  ELSE IF b >= 97 /\ b <= 122 THEN b - 97 + 10
  ELSE IF b >= 65 /\ b <= 90 THEN b - 65 + 10
  ELSE 36

\* The value of the first k digits of s in the given base.
RECURSIVE UintValTo(_, _, _)
UintValTo(s, base, k) ==
  IF k = 0 THEN 0 ELSE UintValTo(s, base, k - 1) * base + DigitVal(s[k])

UintVal(s, base) == UintValTo(s, base, Len(s))

\* strconv.ParseUint(s, base, bitSize) for an explicit base: the empty string and
\* a byte that is no digit of the base are syntax errors.
ParseUint(s, base) ==
  IF s = <<>> \/ \E i \in 1..Len(s) : DigitVal(s[i]) >= base
  THEN [err |-> "syntax", n |-> 0]
  ELSE [err |-> "nil", n |-> UintVal(s, base)]

RECURSIVE Pow(_, _)
Pow(b, e) == IF e = 0 THEN 1 ELSE b * Pow(b, e - 1)

\* strconv.ParseInt(s, base, bitSize): an optional sign, then ParseUint; the
\* magnitude must fit bitSize bits, sign included.  bitSize 64 is beyond TLC's
\* integers: no input of the model reaches that range.
ParseInt(s, base, bitSize) ==
  IF s = <<>> THEN [err |-> "syntax", n |-> 0]
  ELSE LET neg == s[1] = Dash
           signed == s[1] = Plus \/ s[1] = Dash
           u == ParseUint(IF signed THEN Tail(s) ELSE s, base)
       IN IF u.err # "nil" THEN u
          ELSE IF bitSize < 32 /\ ~neg /\ u.n >= Pow(2, bitSize - 1)
                 THEN [err |-> "range", n |-> Pow(2, bitSize - 1) - 1]
          ELSE IF bitSize < 32 /\ neg /\ u.n > Pow(2, bitSize - 1)
                 THEN [err |-> "range", n |-> 0 - Pow(2, bitSize - 1)]
          ELSE [err |-> "nil", n |-> IF neg THEN 0 - u.n ELSE u.n]

\* strconv.Atoi(s) is ParseInt(s, 10, 0).
Atoi(s) == ParseInt(s, 10, 64)

\* The digits of n >= 0 in the given base, most significant first, lowercase.
DigitChar(d) == IF d < 10 THEN 48 + d ELSE 97 + (d - 10)

RECURSIVE FormatUint(_, _)
FormatUint(n, base) ==
  IF n < base THEN <<DigitChar(n)>>
  ELSE Append(FormatUint(n \div base, base), DigitChar(n % base))

\* Left-pad with '0' to the given width (fmt's %0Nd, %0No).
RECURSIVE ZeroPad(_, _)
ZeroPad(s, width) == IF Len(s) >= width THEN s ELSE ZeroPad(<<48>> \o s, width)

\* fmt.Sprintf("%d", v)
FormatInt(v) == IF v < 0 THEN <<Dash>> \o FormatUint(0 - v, 10) ELSE FormatUint(v, 10)

\* fmt.Sprintf("%x", v) of a byte string: two lowercase hex digits a byte.
RECURSIVE HexEncode(_)
HexEncode(v) ==
  IF v = <<>> THEN <<>>
  ELSE <<DigitChar(v[1] \div 16), DigitChar(v[1] % 16)>> \o HexEncode(Tail(v))

IsHexDigit(b) == DigitVal(b) < 16

\* encoding/hex.Decode: an odd length or a byte that is no hex digit is an error.
HexPairs(s) ==
  [i \in 1..(Len(s) \div 2) |-> DigitVal(s[2 * i - 1]) * 16 + DigitVal(s[2 * i])]

HexDecode(s) ==
  IF Len(s) % 2 = 1 \/ \E i \in 1..Len(s) : ~IsHexDigit(s[i])
  THEN [err |-> "hex", out |-> <<>>]
  ELSE [err |-> "nil", out |-> HexPairs(s)]

(***************************************************************************)
(* The bytea codec.                                                        *)
(***************************************************************************)
\* The server version from which the hex format is used.
HexVersion == 90000

HexMarker == <<Backslash, LetterX>>

EscapeByteSingleBackslash(b) ==
  IF b < 32 \/ b > 126
  THEN <<Backslash>> \o ZeroPad(FormatUint(b, 8), 3)
  ELSE <<b>>

\* One byte of the legacy "escape" form (the loop body of encodeBytea).
EscapeByte(b) ==
  IF b = Backslash THEN <<Backslash, Backslash>>
  ELSE IF b < 32 \/ b > 126
    THEN <<Backslash>> \o ZeroPad(FormatUint(b, 8), 3)
  ELSE <<b>>

RECURSIVE EscapeBytes(_)
EscapeBytes(v) == IF v = <<>> THEN <<>> ELSE EscapeByte(v[1]) \o EscapeBytes(Tail(v))

encodeBytea(serverVersion, v) ==
  IF serverVersion >= HexVersion
  THEN HexMarker \o HexEncode(v)
  ELSE EscapeBytes(v)

\* The legacy "escape" loop of parseBytea: the slice s of the loop is
\* all[at:], result what has been decoded so far.
RECURSIVE parseEscape(_, _, _)
parseEscape(all, at, result) ==
  LET s == Slice(all, at, Len(all))
  IN IF Len(s) = 0 THEN Ok(result)
     ELSE IF s[1] = Backslash
       THEN IF Len(s) >= 2 /\ s[2] = Backslash
              THEN parseEscape(all, at + 2, Append(result, Backslash))
            ELSE IF Len(s) < 4 THEN Errorf("invalid bytea sequence")
            ELSE LET r == ParseInt(Slice(s, 1, 4), 8, 9)
                 IN IF r.err # "nil" THEN Errorf("could not parse bytea value")
                    ELSE parseEscape(all, at + 4, Append(result, r.n % 256))
     ELSE LET i == IndexByte(s, Backslash)
          IN IF i = -1 THEN Ok(result \o s)
             ELSE parseEscape(all, at + i, result \o Slice(s, 0, i))

parseBytea(s) ==
  IF Len(s) >= 2 /\ Slice(s, 0, 2) = HexMarker
  THEN LET d == HexDecode(Slice(s, 2, Len(s)))
       IN IF d.err # "nil" THEN Errorf("hex") ELSE Ok(d.out)
  ELSE parseEscape(s, 0, <<>>)

(***************************************************************************)
(* The timestamp parser.                                                   *)
(***************************************************************************)
\* The first result of a sequence of step results, in the order the code takes
\* the steps, that is no success; Ok(TRUE) when every step succeeded.
FirstFailure(steps) ==
  IF \E i \in 1..Len(steps) : steps[i].kind # "ok"
  THEN steps[CHOOSE i \in 1..Len(steps) :
               steps[i].kind # "ok" /\ \A j \in 1..(i - 1) : steps[j].kind = "ok"]
  ELSE Ok(TRUE)

\* expect(str, char, pos): str[pos:pos+1] must be char.
expect(str, char, pos) ==
  IF ~SliceOK(str, pos, pos + 1) THEN Panic("slice bounds out of range")
  ELSE IF Slice(str, pos, pos + 1) # <<char>> THEN Errorf("expected char")
  ELSE Ok(TRUE)

\* mustAtoi(str): strconv.Atoi, any error turned into errorf.
mustAtoi(str) ==
  LET r == Atoi(str)
  IN IF r.err # "nil" THEN Errorf("expected number") ELSE Ok(r.n)

\* mustAtoi(str[a:b]): the slice expression is evaluated first.
mustAtoiSlice(str, a, b) ==
  IF ~SliceOK(str, a, b) THEN Panic("slice bounds out of range")
  ELSE mustAtoi(Slice(str, a, b))

\* 1000000000 / int(math.Pow(10, float64(fracOff))): a truncating division of
\* positive integers, taken one factor of ten at a time (exact up to 10^18).
RECURSIVE DivPow10(_, _)
DivPow10(n, e) == IF e = 0 THEN n ELSE DivPow10(n \div 10, e - 1)

\* The date: year up to the first '-', two bytes of month, '-', two of day.
\* The result holds the variables of parseTs; those of the later sections have
\* the values the code declares them with.
tsDate(str) ==
  LET monSep == IndexByte(str, Dash)
      daySep == monSep + 3
      timeSep == daySep + 3
      year == mustAtoiSlice(str, 0, monSep)
      month == mustAtoiSlice(str, monSep + 1, daySep)
      sep == expect(str, Dash, daySep)
      day == mustAtoiSlice(str, daySep + 1, timeSep)
      fail == FirstFailure(<<year, month, sep, day>>)
  IN IF fail.kind # "ok" THEN fail
     ELSE [kind |-> "ok", monSep |-> monSep, timeSep |-> timeSep,
           year |-> year.val, month |-> month.val, day |-> day.val,
           hour |-> 0, minute |-> 0, second |-> 0,
           remainderIdx |-> 0, nanoSec |-> 0, tzOff |-> 0, bcSign |-> 1]

\* The length from which parseTs takes the time section to be present.
HasTimeSection(str, monSep) == Len(str) > monSep + 5 + 1

\* The time section, read when the string is longer than the date; then
\* remainderIdx is set to where a string with a time section has its remainder.
tsTime(str, st) ==
  IF st.kind # "ok" THEN st
  ELSE LET timeSep == st.timeSep
           minSep == timeSep + 3
           secSep == minSep + 3
           secEnd == secSep + 3
           sp == expect(str, Space, timeSep)
           c1 == expect(str, Colon, minSep)
           hour == mustAtoiSlice(str, timeSep + 1, minSep)
           c2 == expect(str, Colon, secSep)
           minute == mustAtoiSlice(str, minSep + 1, secSep)
           second == mustAtoiSlice(str, secSep + 1, secEnd)
           fail == FirstFailure(<<sp, c1, hour, c2, minute, second>>)
           remainderIdx == st.monSep + 14 + 1
       IN IF ~HasTimeSection(str, st.monSep)
            THEN [st EXCEPT !.remainderIdx = remainderIdx]
          ELSE IF fail.kind # "ok" THEN fail
          ELSE [st EXCEPT !.hour = hour.val, !.minute = minute.val,
                          !.second = second.val, !.remainderIdx = remainderIdx]

\* The factor the fraction is multiplied by.
NanoScale(fracOff) == DivPow10(1000000000, fracOff)

\* The optional fractional seconds at remainderIdx.
tsFrac(str, st) ==
  IF st.kind # "ok" THEN st
  ELSE IF st.remainderIdx < Len(str) /\ str[st.remainderIdx + 1] = Dot
    THEN LET fracStart == st.remainderIdx + 1
             found == IndexAny(Slice(str, fracStart, Len(str)),
                               {Dash, Plus, Space})
             fracOff == IF found < 0 THEN Len(str) - fracStart ELSE found
             fracSec == mustAtoi(Slice(str, fracStart, fracStart + fracOff))
         IN IF fracSec.kind # "ok" THEN fracSec
            ELSE [st EXCEPT !.nanoSec = fracSec.val * NanoScale(fracOff),
                            !.remainderIdx = st.remainderIdx + fracOff + 1]
  ELSE st

\* tzOff as the code combines the sign, the hours, the minutes and the seconds.
ZoneOffset(tzSign, tzHours, tzMin, tzSec) ==
  (tzSign * tzHours * (60 * 60)) + (tzMin * 60) + tzSec

\* The optional time zone offset at remainderIdx.
tsZone(str, st) ==
  IF st.kind # "ok" THEN st
  ELSE LET tzStart == st.remainderIdx
       IN IF tzStart < Len(str) /\ str[tzStart + 1] \in {Dash, Plus}
          THEN LET tzSign == IF str[tzStart + 1] = Dash THEN -1 ELSE 1
                   tzHours == mustAtoiSlice(str, tzStart + 1, tzStart + 3)
                   hasMin == tzStart + 3 < Len(str) /\ str[tzStart + 4] = Colon
                   tzMin == IF hasMin THEN mustAtoiSlice(str, tzStart + 4, tzStart + 6)
                            ELSE Ok(0)
                   hasSec == tzStart + 6 < Len(str) /\ str[tzStart + 7] = Colon
                   tzSec == IF hasSec THEN mustAtoiSlice(str, tzStart + 7, tzStart + 9)
                            ELSE Ok(0)
                   fail == FirstFailure(<<tzHours, tzMin, tzSec>>)
               IN IF fail.kind # "ok" THEN fail
                  ELSE [st EXCEPT
                          !.tzOff = ZoneOffset(tzSign, tzHours.val, tzMin.val, tzSec.val),
                          !.remainderIdx = st.remainderIdx + 3
                                             + (IF hasMin THEN 3 ELSE 0)
                                             + (IF hasSec THEN 3 ELSE 0)]
          ELSE st

EraMarker == <<Space, 66, 67>>

\* The optional " BC" at remainderIdx.
tsBC(str, st) ==
  IF st.kind # "ok" THEN st
  ELSE IF st.remainderIdx < Len(str)
    THEN IF ~SliceOK(str, st.remainderIdx, st.remainderIdx + 3)
           THEN Panic("slice bounds out of range")
         ELSE IF Slice(str, st.remainderIdx, st.remainderIdx + 3) = EraMarker
           THEN [st EXCEPT !.bcSign = -1, !.remainderIdx = st.remainderIdx + 3]
         ELSE st
  ELSE st

\* Anything left after the optional sections is an error.
tsEnd(str, st) ==
  IF st.kind # "ok" THEN st
  ELSE IF st.remainderIdx < Len(str) THEN Errorf("expected end of input")
  ELSE st

\* Days from 1970-01-01 to the civil date y-m-d of the proleptic Gregorian
\* calendar (m in 1..12, d any integer), and back.
DaysFromCivil(y, m, d) ==
  LET yy == IF m <= 2 THEN y - 1 ELSE y
      era == yy \div 400
      yoe == yy - era * 400
      mp == IF m > 2 THEN m - 3 ELSE m + 9
      doy == (153 * mp + 2) \div 5 + d - 1
      doe == yoe * 365 + yoe \div 4 - yoe \div 100 + doy
  IN era * 146097 + doe - 719468

CivilFromDays(days) ==
  LET z == days + 719468
      era == z \div 146097
      doe == z - era * 146097
      yoe == (doe - doe \div 1460 + doe \div 36524 - doe \div 146096) \div 365
      doy == doe - (365 * yoe + yoe \div 4 - yoe \div 100)
      mp == (5 * doy + 2) \div 153
      d == doy - (153 * mp + 2) \div 5 + 1
      m == IF mp < 10 THEN mp + 3 ELSE mp - 9
      y == yoe + era * 400
  IN [year |-> IF m <= 2 THEN y + 1 ELSE y, month |-> m, day |-> d]

\* time.Date(year, month, day, hour, min, sec, nsec, time.FixedZone("", off)):
\* values out of range are normalised, each overflowing into the next field.
Date(year, month, day, hour, min, sec, nsec, off) ==
  LET m0 == month - 1
      y1 == year + m0 \div 12
      m1 == (m0 % 12) + 1
      s1 == sec + nsec \div 1000000000
      n1 == nsec % 1000000000
      mi1 == min + s1 \div 60
      s2 == s1 % 60
      h1 == hour + mi1 \div 60
      mi2 == mi1 % 60
      d1 == day + h1 \div 24
      h2 == h1 % 24
      civil == CivilFromDays(DaysFromCivil(y1, m1, 1) + d1 - 1)
  IN [year |-> civil.year, month |-> civil.month, day |-> civil.day,
      hour |-> h2, minute |-> mi2, second |-> s2, nanosecond |-> n1,
      offset |-> off, zone |-> ""]

\* A *time.Location: its name, the offset in force before its first transition,
\* and its transitions in the order of time, each the UTC instant (a day from
\* 1970-01-01 and a second of that day) from which an offset is in force.  The
\* offset of the last transition stays in force.

\* No currentLocation (a nil *time.Location).
NoLocation == [name |-> "", isNil |-> TRUE, first |-> 0, tx |-> <<>>]

\* The instant of t on the UTC time line, as a day and a second of that day.
UnixDaySec(t) ==
  LET s == t.hour * 3600 + t.minute * 60 + t.second - t.offset
  IN [day |-> DaysFromCivil(t.year, t.month, t.day) + s \div 86400,
      sec |-> s % 86400]

\* The transitions of loc at or before the instant.
PastTransitions(loc, at) ==
  {i \in 1..Len(loc.tx) :
     \/ loc.tx[i].day < at.day
     \/ loc.tx[i].day = at.day /\ loc.tx[i].sec <= at.sec}

\* _, newOff := t.In(loc).Zone(): the offset loc has at the instant of t.
ZoneOffsetAt(loc, t) ==
  LET past == PastTransitions(loc, UnixDaySec(t))
  IN IF past = {} THEN loc.first
     ELSE loc.tx[CHOOSE i \in past : \A j \in past : j <= i].off

\* The instant takes the session's location when the offset that location has
\* at the instant is the parsed one; else it keeps the fixed zone.
InLocation(currentLocation, t, tzOff) ==
  IF ~currentLocation.isNil /\ ZoneOffsetAt(currentLocation, t) = tzOff
  THEN [t EXCEPT !.zone = currentLocation.name]
  ELSE t

\* The instant built from the variables of parseTs once the whole string is read.
tsResult(currentLocation, st) ==
  IF st.kind # "ok" THEN st
  ELSE Ok(InLocation(currentLocation,
                     Date(st.bcSign * st.year, st.month, st.day,
                          st.hour, st.minute, st.second, st.nanoSec, st.tzOff),
                     st.tzOff))

parseTs(currentLocation, str) ==
  tsResult(currentLocation,
           tsEnd(str, tsBC(str, tsZone(str, tsFrac(str, tsTime(str, tsDate(str)))))))

(***************************************************************************)
(* Floating point numbers: fmt's %.9f and %.17f, strconv.ParseFloat.       *)
(*                                                                         *)
(* A float is held by a decimal or hexadecimal number: digits is the       *)
(* sequence of its significant digits, without a zero at either end, and   *)
(* the number is digits * 10^exp (base 10) or digits * 2^exp (base 16).    *)
(* Class "finite" is a float that is exactly that number.  Class "nearest" *)
(* is the float of `bits` bits nearest to that number, ties to even: the   *)
(* result of ParseFloat wherever TLC's 32-bit integers cannot establish    *)
(* that the number is itself a float.  Classes "inf" and "nan" are the     *)
(* infinities and not-a-number.                                            *)
(***************************************************************************)
Float(class, neg, digits, exp, base, bits) ==
  [class |-> class, neg |-> neg, digits |-> digits, exp |-> exp, base |-> base,
   bits |-> bits]

FiniteFloat(neg, digits, exp) == Float("finite", neg, digits, exp, 10, 0)
NearestFloat(neg, digits, exp, base, bits) == Float("nearest", neg, digits, exp, base, bits)
InfFloat(neg) == Float("inf", neg, <<>>, 0, 10, 0)
NaNFloat == Float("nan", FALSE, <<>>, 0, 10, 0)
ZeroFloat == FiniteFloat(FALSE, <<>>, 0)

ZeroDigits(n) == [i \in 1..n |-> 0]

\* d without its leading zeros, and without its trailing zeros.
StripLeft(d) ==
  LET nz == {i \in 1..Len(d) : d[i] # 0}
  IN IF nz = {} THEN <<>> ELSE SubSeq(d, CHOOSE i \in nz : \A j \in nz : i <= j, Len(d))

StripRight(d) ==
  LET nz == {i \in 1..Len(d) : d[i] # 0}
  IN IF nz = {} THEN <<>> ELSE SubSeq(d, 1, CHOOSE i \in nz : \A j \in nz : j <= i)

\* The digit sequence k plus one.
IncDigits(k) ==
  LET non9 == {i \in 1..Len(k) : k[i] # 9}
      j == CHOOSE i \in non9 : \A m \in non9 : m <= i
  IN IF non9 = {} THEN <<1>> \o ZeroDigits(Len(k))
     ELSE [i \in 1..Len(k) |-> IF i < j THEN k[i] ELSE IF i = j THEN k[i] + 1 ELSE 0]

\* The digits of |f| * 10^prec rounded to an integer, ties to even, as
\* strconv rounds the exact decimal expansion of a float (decimal.Round).
\* cut is the number of digits of f below the last decimal place.
RoundedDigits(f, prec) ==
  LET n == Len(f.digits)
      cut == (0 - f.exp) - prec
      kept == IF cut >= n THEN <<>> ELSE SubSeq(f.digits, 1, n - cut)
      first == IF cut > n THEN 0 ELSE f.digits[n - cut + 1]
      lastKept == IF kept = <<>> THEN 0 ELSE kept[Len(kept)]
      up == first > 5 \/ (first = 5 /\ (cut > 1 \/ lastKept % 2 = 1))
  IN IF cut <= 0 THEN f.digits \o ZeroDigits(0 - cut)
     ELSE IF up THEN IncDigits(kept) ELSE kept

\* The digits d as text with prec of them after the point: "0.05", "12.50".
PointText(d, prec) ==
  LET padded == ZeroDigits(prec + 1 - Len(d)) \o d
      text == [i \in 1..Len(padded) |-> 48 + padded[i]]
  IN SubSeq(text, 1, Len(text) - prec) \o <<Dot>>
       \o SubSeq(text, Len(text) - prec + 1, Len(text))

\* fmt.Sprintf("%.<prec>f", v) of a float given exactly: "NaN", "+Inf", "-Inf",
\* or the sign of a negative float, zero included, and its rounded digits.
FormatFloat(f, prec) ==
  CASE f.class = "nan" -> <<78, 97, 78>>
    [] f.class = "inf" -> <<IF f.neg THEN Dash ELSE Plus, 73, 110, 102>>
    [] f.class = "finite" ->
         (IF f.neg THEN <<Dash>> ELSE <<>>) \o PointText(RoundedDigits(f, prec), prec)

\* c with an ASCII capital letter made small.
LowerByte(c) == IF c >= 65 /\ c <= 90 THEN c + 32 ELSE c

\* strconv's special: "inf", "infinity", each with an optional sign, and "nan",
\* in letters of either case.
special(s) ==
  LET low == [i \in 1..Len(s) |-> LowerByte(s[i])]
      signed == Len(s) > 0 /\ s[1] \in {Plus, Dash}
      body == IF signed THEN Tail(low) ELSE low
  IN IF body \in {<<105, 110, 102>>, <<105, 110, 102, 105, 110, 105, 116, 121>>}
       THEN [ok |-> TRUE, f |-> InfFloat(signed /\ s[1] = Dash)]
     ELSE IF low = <<110, 97, 110>> THEN [ok |-> TRUE, f |-> NaNFloat]
     ELSE [ok |-> FALSE, f |-> ZeroFloat]

\* The end of the run of bytes of `set` that starts after the first `from`
\* bytes of s.
SpanEnd(s, from, set) ==
  CHOOSE e \in from..Len(s) :
    /\ \A i \in (from + 1)..e : s[i] \in set
    /\ (e = Len(s) \/ s[e + 1] \notin set)

\* s without the bytes c.
Without(s, c) == SelectSeq(s, LAMBDA b : b # c)

\* strconv's underscoreOK: every '_' stands after a digit or the base prefix
\* and before a digit.
underscoreOK(s, hex, prefixEnd, digitSet) ==
  \A j \in 1..Len(s) :
    s[j] = 95 =>
      /\ j > 1
      /\ (s[j - 1] \in digitSet \/ (hex /\ j - 1 = prefixEnd))
      /\ j < Len(s)
      /\ s[j + 1] \in digitSet

\* One digit more on the exponent: if e < 10000 { e = e*10 + digit }.
ExponentStep(e, digit) == IF e < 10000 THEN e * 10 + digit ELSE e

\* The exponent of the first k exponent digits d, read from the left: a digit
\* is added only while the exponent is below 10000, so it ends below 100000.
RECURSIVE ExponentValueTo(_, _)
ExponentValueTo(d, k) ==
  IF k = 0 THEN 0 ELSE ExponentStep(ExponentValueTo(d, k - 1), d[k] - 48)

ExponentValue(d) == ExponentValueTo(d, Len(d))

\* strconv's readFloat over the whole of s: a sign, "0x" for base 16, digits
\* with at most one point and with underscores, and an exponent 'e' (base 10)
\* or 'p' (base 16, where it must be there) with a sign and decimal digits.
\* mant holds the values of the digits, exp the exponent of the last of them.
readFloat(s) ==
  LET n == Len(s)
      i0 == IF n > 0 /\ s[1] \in {Plus, Dash} THEN 1 ELSE 0
      hex == i0 + 2 < n /\ s[i0 + 1] = 48 /\ s[i0 + 2] \in {88, LetterX}
      m0 == IF hex THEN i0 + 2 ELSE i0
      digitSet == IF hex THEN (48..57) \cup (65..70) \cup (97..102) ELSE 48..57
      e1 == SpanEnd(s, m0, digitSet \cup {95})
      sawdot == e1 < n /\ s[e1 + 1] = Dot
      e2 == IF sawdot THEN SpanEnd(s, e1 + 1, digitSet \cup {95}) ELSE e1
      whole == Without(SubSeq(s, m0 + 1, e1), 95)
      frac == IF sawdot THEN Without(SubSeq(s, e1 + 2, e2), 95) ELSE <<>>
      sawexp == e2 < n /\ s[e2 + 1] \in (IF hex THEN {80, 112} ELSE {69, 101})
      esigned == e2 + 1 < n /\ s[e2 + 2] \in {Plus, Dash}
      k == IF esigned THEN e2 + 2 ELSE e2 + 1
      expOK == sawexp /\ k < n /\ IsDigit(s[k + 1])
      e3 == IF expOK THEN SpanEnd(s, k, (48..57) \cup {95}) ELSE e2
      e == IF expOK THEN ExponentValue(Without(SubSeq(s, k + 1, e3), 95)) ELSE 0
      esign == IF esigned /\ s[e2 + 2] = Dash THEN -1 ELSE 1
  IN [ok |-> /\ whole \o frac # <<>>
             /\ (sawexp => expOK)
             /\ (hex => sawexp)
             /\ e3 = n
             /\ underscoreOK(s, hex, m0, digitSet),
      neg |-> i0 = 1 /\ s[1] = Dash,
      hex |-> hex,
      mant |-> StripLeft([i \in 1..Len(whole \o frac) |-> DigitVal((whole \o frac)[i])]),
      exp |-> esign * e - (IF hex THEN 4 ELSE 1) * Len(frac)]

\* n without its factors of two.
RECURSIVE OddPart(_)
OddPart(n) == IF n > 0 /\ n % 2 = 0 THEN OddPart(n \div 2) ELSE n

\* The value of a sequence of digit values in the given base.
RECURSIVE DigitsValTo(_, _, _)
DigitsValTo(d, base, k) ==
  IF k = 0 THEN 0 ELSE DigitsValTo(d, base, k - 1) * base + d[k]

\* The least number that overflows a float of 64 and of 32 bits: the greatest
\* float plus half the step to the next, 2^1024 - 2^970 and 2^128 - 2^103.
Overflow64 ==
  <<1, 7, 9, 7, 6, 9, 3, 1, 3, 4, 8, 6, 2, 3, 1, 5, 8, 0, 7, 9, 3, 7, 2, 8, 9, 7, 1, 4, 0, 5,
     3, 0, 3, 4, 1, 5, 0, 7, 9, 9, 3, 4, 1, 3, 2, 7, 1, 0, 0, 3, 7, 8, 2, 6, 9, 3, 6, 1, 7, 3,
     7, 7, 8, 9, 8, 0, 4, 4, 4, 9, 6, 8, 2, 9, 2, 7, 6, 4, 7, 5, 0, 9, 4, 6, 6, 4, 9, 0, 1, 7,
     9, 7, 7, 5, 8, 7, 2, 0, 7, 0, 9, 6, 3, 3, 0, 2, 8, 6, 4, 1, 6, 6, 9, 2, 8, 8, 7, 9, 1, 0,
     9, 4, 6, 5, 5, 5, 5, 4, 7, 8, 5, 1, 9, 4, 0, 4, 0, 2, 6, 3, 0, 6, 5, 7, 4, 8, 8, 6, 7, 1,
     5, 0, 5, 8, 2, 0, 6, 8, 1, 9, 0, 8, 9, 0, 2, 0, 0, 0, 7, 0, 8, 3, 8, 3, 6, 7, 6, 2, 7, 3,
     8, 5, 4, 8, 4, 5, 8, 1, 7, 7, 1, 1, 5, 3, 1, 7, 6, 4, 4, 7, 5, 7, 3, 0, 2, 7, 0, 0, 6, 9,
     8, 5, 5, 5, 7, 1, 3, 6, 6, 9, 5, 9, 6, 2, 2, 8, 4, 2, 9, 1, 4, 8, 1, 9, 8, 6, 0, 8, 3, 4,
     9, 3, 6, 4, 7, 5, 2, 9, 2, 7, 1, 9, 0, 7, 4, 1, 6, 8, 4, 4, 4, 3, 6, 5, 5, 1, 0, 7, 0, 4,
     3, 4, 2, 7, 1, 1, 5, 5, 9, 6, 9, 9, 5, 0, 8, 0, 9, 3, 0, 4, 2, 8, 8, 0, 1, 7, 7, 9, 0, 4,
     1, 7, 4, 4, 9, 7, 7, 9, 2>>

Overflow32 ==
  <<3, 4, 0, 2, 8, 2, 3, 5, 6, 7, 7, 9, 7, 3, 3, 6, 6, 1, 6, 3, 7, 5, 3, 9, 3, 9, 5, 4, 5, 8,
     1, 4, 2, 5, 6, 8, 4, 4, 8>>

\* d >= t as the decimal fractions 0.d and 0.t.
DigitsGE(d, t) ==
  LET at(x, i) == IF i <= Len(x) THEN x[i] ELSE 0
      len == IF Len(d) > Len(t) THEN Len(d) ELSE Len(t)
  IN ~ \E i \in 1..len :
         at(d, i) < at(t, i) /\ \A j \in 1..(i - 1) : at(d, j) = at(t, j)

\* The decimal number digits * 10^exp is a float of the given width.  Tested
\* for at most nine digits and a small exponent: then the number is
\* n / 2^p or n * 2^p with an odd n that fits the mantissa.
IsDecimalFloat(digits, exp, bits) ==
  LET d == DigitsValTo(digits, 10, Len(digits))
      p == 0 - exp
  IN /\ Len(digits) <= 9
     /\ IF exp >= 0
        THEN exp <= 9 /\ (bits = 64 \/ OddPart(d) <= 16777215 \div Pow(5, exp))
        ELSE p <= 13 /\ d % Pow(5, p) = 0
               /\ (bits = 64 \/ OddPart(d \div Pow(5, p)) <= 16777215)

\* The float nearest to a decimal number with the digits mant (no leading
\* zero) and the exponent exp: a range error from the overflow threshold on.
atofDecimal(neg, mant, exp, bits) ==
  LET digits == StripRight(mant)
      e == exp + (Len(mant) - Len(digits))
      top == e + Len(digits)
      max == IF bits = 32 THEN Len(Overflow32) ELSE Len(Overflow64)
      limit == IF bits = 32 THEN Overflow32 ELSE Overflow64
  IN IF top > max \/ (top = max /\ DigitsGE(digits, limit))
       THEN [err |-> "range", f |-> InfFloat(neg)]
     ELSE IF IsDecimalFloat(digits, e, bits)
       THEN [err |-> "nil", f |-> FiniteFloat(neg, digits, e)]
     ELSE [err |-> "nil", f |-> NearestFloat(neg, digits, e, 10, bits)]

\* The bits of a sequence of hexadecimal digit values, without leading zeros.
HexBits(mant) ==
  StripLeft([i \in 1..(4 * Len(mant)) |->
               (mant[(i + 3) \div 4] \div Pow(2, 3 - ((i - 1) % 4))) % 2])

\* The odd number m times 2^e as a decimal number, where TLC's integers hold it.
DyadicIsSmall(m, e) ==
  IF e >= 0 THEN e <= 30 /\ m <= 2147483647 \div Pow(2, e)
  ELSE 0 - e <= 13 /\ m <= 2147483647 \div Pow(5, 0 - e)

DyadicDigits(m, e) ==
  LET n == IF e >= 0 THEN m * Pow(2, e) ELSE m * Pow(5, 0 - e)
      text == FormatUint(n, 10)
  IN [i \in 1..Len(text) |-> text[i] - 48]

\* The float nearest to the hexadecimal number with the digits mant (no
\* leading zero) times 2^exp: a range error when it rounds to 2^1024 (2^128
\* for 32 bits) or lies beyond.
atofHex(neg, mant, exp, bits) ==
  LET b == HexBits(mant)
      odd == StripRight(b)
      e == exp + (Len(b) - Len(odd))
      mantbits == IF bits = 32 THEN 24 ELSE 53
      maxExp == IF bits = 32 THEN 128 ELSE 1024
      top == exp + Len(b)
      roundsUp == Len(b) > mantbits /\ \A i \in 1..(mantbits + 1) : b[i] = 1
      m == DigitsValTo(odd, 2, Len(odd))
      digits == DyadicDigits(m, e)
  IN IF top > maxExp \/ (top = maxExp /\ roundsUp)
       THEN [err |-> "range", f |-> InfFloat(neg)]
     ELSE IF Len(odd) <= mantbits /\ Len(odd) <= 30 /\ DyadicIsSmall(m, e)
       THEN [err |-> "nil",
             f |-> FiniteFloat(neg, StripRight(digits),
                               (IF e >= 0 THEN 0 ELSE e)
                                 + (Len(digits) - Len(StripRight(digits))))]
     ELSE [err |-> "nil", f |-> NearestFloat(neg, mant, exp, 16, bits)]

\* The float of a number readFloat has read.
atof(r, bits) ==
  IF ~r.ok THEN [err |-> "syntax", f |-> ZeroFloat]
  ELSE IF r.mant = <<>> THEN [err |-> "nil", f |-> FiniteFloat(r.neg, <<>>, 0)]
  ELSE IF r.hex THEN atofHex(r.neg, r.mant, r.exp, bits)
  ELSE atofDecimal(r.neg, r.mant, r.exp, bits)

\* strconv.ParseFloat(s, bitSize): the float of bitSize bits nearest to the
\* number s writes; a syntax error unless all of s is a number, a range error
\* when the number overflows.
ParseFloat(s, bitSize) ==
  IF special(s).ok THEN [err |-> "nil", f |-> special(s).f]
  ELSE atof(readFloat(s), bitSize)

(***************************************************************************)
(* Values of the generic scan / value boundary (interface{}, driver.Value).*)
(***************************************************************************)
\* The zero value of time.Time: January 1, year 1, 00:00:00 UTC.
ZeroTime ==
  [year |-> 1, month |-> 1, day |-> 1, hour |-> 0, minute |-> 0, second |-> 0,
   nanosecond |-> 0, offset |-> 0, zone |-> "UTC"]

\* A value of one dynamic type: the field of its kind holds it, the others
\* hold their zero values.
Value(kind, n, s, b, t, f) ==
  [kind |-> kind, n |-> n, s |-> s, b |-> b, t |-> t, f |-> f]

NilValue == Value("nil", 0, <<>>, FALSE, ZeroTime, ZeroFloat)
IntValue(n) == Value("int64", n, <<>>, FALSE, ZeroTime, ZeroFloat)
Float32Value(f) == Value("float32", 0, <<>>, FALSE, ZeroTime, f)
Float64Value(f) == Value("float64", 0, <<>>, FALSE, ZeroTime, f)
BytesValue(s) == Value("bytes", 0, s, FALSE, ZeroTime, ZeroFloat)
StringValue(s) == Value("string", 0, s, FALSE, ZeroTime, ZeroFloat)
BoolValue(b) == Value("bool", 0, <<>>, b, ZeroTime, ZeroFloat)
TimeValue(t) == Value("time", 0, <<>>, FALSE, t, ZeroFloat)

(***************************************************************************)
(* time.Parse for the layouts of decode: "15:04:05", "15:04:05-07" and     *)
(* "15:04:05-07:00".                                                       *)
(***************************************************************************)
\* The byte at index p of str, counted from 0; -1 outside str.
ByteAt(str, p) == IF 0 <= p /\ p < Len(str) THEN str[p + 1] ELSE -1

\* The k bytes from index p on are digits.
DigitsAt(str, p, k) == \A i \in 0..(k - 1) : IsDigit(ByteAt(str, p + i))

\* The two-digit number at index p.
NumAt(str, p) == (str[p + 1] - 48) * 10 + (str[p + 2] - 48)

\* The clock of the layouts: an hour of one or two digits below 24, and
\* minutes and seconds of two digits below 60.  When a point or a comma and a
\* digit follow the seconds, all digits after it are read as the fraction, of
\* which nine count.  rest is the index after what was read.
parseClock(value) ==
  LET hl == IF DigitsAt(value, 0, 2) THEN 2 ELSE 1
      hour == IF hl = 2 THEN NumAt(value, 0) ELSE value[1] - 48
      p == hl + 6
      sawFrac == ByteAt(value, p) \in {Dot, 44} /\ DigitsAt(value, p + 1, 1)
      fracEnd == IF sawFrac THEN SpanEnd(value, p + 1, 48..57) ELSE p
      frac == SubSeq(value, p + 2, IF fracEnd > p + 10 THEN p + 10 ELSE fracEnd)
  IN IF /\ DigitsAt(value, 0, 1)
        /\ ByteAt(value, hl) = Colon
        /\ DigitsAt(value, hl + 1, 2)
        /\ ByteAt(value, hl + 3) = Colon
        /\ DigitsAt(value, hl + 4, 2)
        /\ hour < 24 /\ NumAt(value, hl + 1) < 60 /\ NumAt(value, hl + 4) < 60
     THEN [ok |-> TRUE, hour |-> hour, minute |-> NumAt(value, hl + 1),
           second |-> NumAt(value, hl + 4),
           nsec |-> UintVal(frac, 10) * Pow(10, 9 - Len(frac)), rest |-> fracEnd]
     ELSE [ok |-> FALSE, hour |-> 0, minute |-> 0, second |-> 0, nsec |-> 0,
           rest |-> 0]

\* The zone of the layouts "-07" and "-07:00" at index z, which must end the
\* text: a sign, two digits of hours up to 24 and, after a colon, two digits of
\* minutes up to 60.
parseZone(colon, value, z) ==
  LET hr == NumAt(value, z + 1)
      mm == IF colon THEN NumAt(value, z + 4) ELSE 0
  IN IF /\ Len(value) = z + (IF colon THEN 6 ELSE 3)
        /\ ByteAt(value, z) \in {Plus, Dash}
        /\ DigitsAt(value, z + 1, 2)
        /\ (colon => ByteAt(value, z + 3) = Colon /\ DigitsAt(value, z + 4, 2))
        /\ hr <= 24 /\ mm <= 60
     THEN [ok |-> TRUE,
           offset |-> (IF value[z + 1] = Dash THEN -1 ELSE 1) * ((hr * 60 + mm) * 60)]
     ELSE [ok |-> FALSE, offset |-> 0]

\* time.Parse(layout, value): the clock time on January 1 of the year 0.
\* Without a zone in the layout ("15:04:05", or "15:04:05:00" with its text
\* ":00") the time is in UTC.  With one ("15:04:05-07", "15:04:05-07:00") it is
\* in time.Local when Local has the parsed offset at that instant, else in a
\* fixed zone without a name.
timeParse(layout, value, local) ==
  LET c == parseClock(value)
      z == parseZone(layout = "15:04:05-07:00", value, c.rest)
      t == [year |-> 0, month |-> 1, day |-> 1, hour |-> c.hour,
            minute |-> c.minute, second |-> c.second, nanosecond |-> c.nsec,
            offset |-> z.offset, zone |-> ""]
  IN IF ~c.ok THEN [err |-> "parse", t |-> ZeroTime]
     ELSE IF layout = "15:04:05"
       THEN IF c.rest = Len(value)
              THEN [err |-> "nil", t |-> [t EXCEPT !.offset = 0, !.zone = "UTC"]]
            ELSE [err |-> "parse", t |-> ZeroTime]
     ELSE IF layout = "15:04:05:00"
       THEN IF SubSeq(value, c.rest + 1, Len(value)) = <<Colon, 48, 48>>
              THEN [err |-> "nil", t |-> [t EXCEPT !.offset = 0, !.zone = "UTC"]]
            ELSE [err |-> "parse", t |-> ZeroTime]
     ELSE IF ~z.ok THEN [err |-> "parse", t |-> ZeroTime]
     ELSE IF ZoneOffsetAt(local, t) = z.offset
       THEN [err |-> "nil", t |-> [t EXCEPT !.zone = "Local"]]
     ELSE [err |-> "nil", t |-> t]

\* mustParse(f, typ, s): a digit is put after a fraction of one digit, the
\* layout of a zone gets ":00" when the text has a colon three bytes before its
\* end, and any error of time.Parse becomes errorf.  Both looks at the end of
\* the text index it without a check of its length.  f is "15:04:05" or
\* "15:04:05-07"; local is time.Local of the process.
mustParse(f, typ, s, local) ==
  LET str == IF s[Len(s) - 1] = Dot THEN Append(s, 48) ELSE s
      tz == typ \in {"T_timestamptz", "T_timetz"}
      layout == IF tz /\ str[Len(str) - 2] = Colon
                THEN (IF f = "15:04:05-07" THEN "15:04:05-07:00" ELSE "15:04:05:00")
                ELSE f
      r == timeParse(layout, str, local)
  IN IF Len(s) < 2 THEN Panic("index out of range")
     ELSE IF tz /\ Len(str) < 3 THEN Panic("index out of range")
     ELSE IF r.err # "nil" THEN Errorf("decode: time.Parse")
     ELSE Ok(r.t)

(***************************************************************************)
(* NullTime.                                                               *)
(***************************************************************************)
\* The zero value of NullTime.
NullTimeZero == [Time |-> ZeroTime, Valid |-> FALSE]

assertTimeNonNil(value) ==
  IF value.kind = "time" THEN [Time |-> value.t, Valid |-> TRUE]
  ELSE [Time |-> ZeroTime, Valid |-> value.kind # "nil"]

\* The two-result type assertion value.(time.Time): the instant and true, or the
\* zero time and false for a value of any other dynamic type, nil included.
assertTime(value) ==
  IF value.kind = "time" THEN [Time |-> value.t, Valid |-> TRUE]
  ELSE [Time |-> ZeroTime, Valid |-> FALSE]

\* NullTime.Value(): nil when not valid, the stored time otherwise.
nullTimeValue(n) == IF ~n.Valid THEN NilValue ELSE TimeValue(n.Time)

\* The variables of NullTime, untouched by the codec's functions.
NullTimeIdle ==
  /\ nt = NullTimeZero
  /\ scanned = <<>>
  /\ scanErr = "none"
  /\ valueOut = NilValue

(***************************************************************************)
(* The bytea codec: a value is encoded for a server of some version and    *)
(* the text is parsed back, or a text received from a server is parsed.    *)
(***************************************************************************)
MaxByteaLen == 3
MaxWireLen == 4

ByteAlphabet == {0, 31, 32, 48, 55, Backslash, LetterX, 126, 127, 128, 255}

ServerVersions == {80400, HexVersion - 1, HexVersion, 90400}

\* Every single byte, and every short sequence over ByteAlphabet.
ByteaValues == SeqsUpTo(ByteAlphabet, MaxByteaLen) \cup {<<b>> : b \in 0..255}

WireAlphabet == {Backslash, 48, 49, 55, 56, Dash, LetterX}

ByteaInit ==
  /\ \/ /\ pc = "start"
        /\ arg \in [src : {"client"}, serverVersion : ServerVersions, v : ByteaValues]
        /\ wire = <<>>
     \/ /\ pc = "wire"
        /\ arg = [src |-> "server", serverVersion |-> 0, v |-> <<>>]
        /\ wire \in SeqsUpTo(WireAlphabet, MaxWireLen)
  /\ ret = NoResult
  /\ NullTimeIdle

EncodeBytea ==
  /\ pc = "start"
  /\ wire' = encodeBytea(arg.serverVersion, arg.v)
  /\ pc' = "wire"
  /\ UNCHANGED <<arg, ret, nt, scanned, scanErr, valueOut>>

ParseBytea ==
  /\ pc = "wire"
  /\ ret' = parseBytea(wire)
  /\ pc' = "done"
  /\ UNCHANGED <<arg, wire, nt, scanned, scanErr, valueOut>>

ByteaNext == EncodeBytea \/ ParseBytea

SpecBytea == ByteaInit /\ [][ByteaNext]_vars

\* C1: for every byte sequence and every server version, hex form or legacy
\* escape form, parsing the encoded text succeeds and returns exactly the bytes.
ByteaRoundTrip ==
  (pc = "done" /\ arg.src = "client") => ret = Ok(arg.v)

\* A legacy-form round trip of bytes that begin with the hex marker and hold 0x00.
ByteaRoundTripWitness ==
  /\ pc = "done"
  /\ arg.src = "client"
  /\ arg.serverVersion < HexVersion
  /\ arg.v = <<Backslash, LetterX, 0>>
  /\ wire = Bytes(<<"\\", "\\", "x", "\\", "0", "0", "0">>)
  /\ ret = Ok(arg.v)

IsOctal(b) == b >= 48 /\ b <= 55

\* The legacy escape grammar, read left to right: s holds a backslash that starts
\* an escape, is not followed by a backslash, and is followed by fewer than three
\* bytes or by three bytes that are not all octal digits.
RECURSIVE BadEscapeFrom(_, _)
BadEscapeFrom(s, p) ==
  IF p > Len(s) THEN FALSE
  ELSE IF s[p] # 92 THEN BadEscapeFrom(s, p + 1)
  ELSE IF p + 1 <= Len(s) /\ s[p + 1] = 92 THEN BadEscapeFrom(s, p + 2)
  ELSE IF p + 3 > Len(s) THEN TRUE
  ELSE IF \E i \in (p + 1)..(p + 3) : ~IsOctal(s[i]) THEN TRUE
  ELSE BadEscapeFrom(s, p + 4)

HasBadEscape(s) == BadEscapeFrom(s, 1)

IsHexMode(s) == Len(s) >= 2 /\ SubSeq(s, 1, 2) = HexMarker

\* C7: in legacy escape mode parseBytea fails on every input with a backslash
\* that is followed neither by a backslash nor by three octal digits.
ByteaBadEscapeFails ==
  (pc = "done" /\ arg.src = "server" /\ ~IsHexMode(wire) /\ HasBadEscape(wire))
    => ret.kind = "errorf"

(***************************************************************************)
(* The timestamp parser: a text received from a server is parsed.  The     *)
(* text is put together from a date, a time, a fraction, a zone offset and *)
(* an era fragment, each well-formed, absent or malformed.                 *)
(***************************************************************************)
MaxFracDigits == 10

Zeros(n) == [i \in 1..n |-> "0"]

FracRun == <<"1", "2", "3", "4", "5", "6", "7", "8", "9", "1">>

\* Fractions of n digits.  Beyond ten digits only fractions with leading zeros
\* are drawn, so that the integer value of the digits stays below 2^31.
FracDigits(n) ==
  {Zeros(n - 1) \o <<"5">>}
    \cup (IF n <= 9 THEN {<<"5">> \o Zeros(n - 1)} ELSE {})
    \cup (IF n <= Len(FracRun) THEN {SubSeq(FracRun, 1, n)}
          ELSE {Zeros(n - Len(FracRun)) \o FracRun})

DateFragments ==
  { <<"2", "0", "2", "4", "-", "0", "3", "-", "0", "5">>,
    <<"0", "0", "4", "4", "-", "0", "1", "-", "0", "1">>,
    <<"1", "2", "3", "4", "5", "-", "1", "2", "-", "3", "1">>,
    <<"1", "9", "6", "7", "-", "0", "7", "-", "0", "5">>,
    <<"2", "0", "2", "4", "-", "1", "3", "-", "0", "5">>,
    <<"+", "2", "0", "2", "4", "-", "0", "3", "-", "0", "5">>,
    <<"2", "0", "2", "4", "-", "+", "3", "-", "0", "5">>,
    <<"2", "0", "2", "4", "-", "3", "-", "0", "5">>,
    <<"2", "0", "2", "4", "/", "0", "3", "/", "0", "5">>,
    <<"2", "0", "x", "4", "-", "0", "3", "-", "0", "5">>,
    <<"2", "0", "2", "4", "-", "0", "3">>,
    <<"2", "0", "2", "4">>,
    <<>> }

ClockFragments ==
  { <<>>,
    <<" ", "1", "3", ":", "0", "4", ":", "0", "5">>,
    <<" ", "2", "3", ":", "5", "9", ":", "5", "9">>,
    <<"T", "1", "3", ":", "0", "4", ":", "0", "5">>,
    <<" ", "1", "3", ":", "0", "4">> }

FracFragments ==
  {<<>>, <<".">>, <<".", "1", "2", "a">>}
    \cup UNION {{<<".">> \o d : d \in FracDigits(n)} : n \in 1..MaxFracDigits}

ZoneFragments ==
  { <<>>,
    <<"-", "0", "7", ":", "3", "0">>,
    <<"+", "0", "5", ":", "3", "0", ":", "1", "5">>,
    <<"+", "0", "0">>,
    <<"-", "0", "7">>,
    <<"-", "7">>,
    <<"Z">> }

EraFragments == {<<>>, <<" ", "B", "C">>, <<" ", "B">>}

\* A transition of a location: from second sec of day `day` the offset is off.
Transition(day, sec, off) == [day |-> day, sec |-> sec, off |-> off]

\* America/Phoenix of the time zone database: local mean time until 1883, then
\* UTC-07:00 with daylight or war time in 1918, 1919, 1942-1944 and 1967.
Phoenix ==
  [name |-> "America/Phoenix", isNil |-> FALSE, first |-> 0 - 26898,
   tx |-> << Transition(0 - 31455, 68400, 0 - 25200),
             Transition(0 - 18904, 32400, 0 - 21600),
             Transition(0 - 18694, 28800, 0 - 25200),
             Transition(0 - 18540, 32400, 0 - 21600),
             Transition(0 - 18330, 28800, 0 - 25200),
             Transition(0 - 10188, 32400, 0 - 21600),
             Transition(0 - 9497, 21660, 0 - 25200),
             Transition(0 - 9406, 25260, 0 - 21600),
             Transition(0 - 9223, 21660, 0 - 25200),
             Transition(0 - 977, 32400, 0 - 21600),
             Transition(0 - 795, 28800, 0 - 25200) >>]

\* The location UTC: offset zero at every instant.
UTC == [name |-> "UTC", isNil |-> FALSE, first |-> 0, tx |-> <<>>]

Locations == {NoLocation, Phoenix, UTC}

TsCall(loc, date, clock, frac, zone, era) ==
  [loc |-> loc, date |-> Bytes(date), clock |-> Bytes(clock), frac |-> Bytes(frac),
   zone |-> Bytes(zone), era |-> Bytes(era),
   str |-> Bytes(date \o clock \o frac \o zone \o era)]

TsCalls ==
  {TsCall(loc, date, clock, frac, zone, era) :
     loc \in Locations, date \in DateFragments, clock \in ClockFragments,
     frac \in FracFragments, zone \in ZoneFragments, era \in EraFragments}

TsInit ==
  /\ pc = "start"
  /\ arg \in TsCalls
  /\ wire = <<>>
  /\ ret = NoResult
  /\ NullTimeIdle

ParseTs ==
  /\ pc = "start"
  /\ ret' = parseTs(arg.loc, arg.str)
  /\ pc' = "done"
  /\ UNCHANGED <<arg, wire, nt, scanned, scanErr, valueOut>>

TsNext == ParseTs

SpecTs == TsInit /\ [][TsNext]_vars

\* The grammar YEAR-MM-DD[ HH:MM:SS][.FRAC][{+|-}HH[:MM[:SS]]][ BC], read left
\* to right: every field digits only, MM, DD and the time fields two digits.
LeadDigits(str, p) ==
  CHOOSE k \in 0..Len(str) :
    /\ DigitsAt(str, p, k)
    /\ ~IsDigit(ByteAt(str, p + k))

GrammarEnd(str) ==
  LET yl == LeadDigits(str, 0)
      dateOK == /\ yl >= 1
                /\ ByteAt(str, yl) = Dash
                /\ DigitsAt(str, yl + 1, 2)
                /\ ByteAt(str, yl + 3) = Dash
                /\ DigitsAt(str, yl + 4, 2)
      p0 == yl + 6
      clockOK == /\ ByteAt(str, p0) = Space
                 /\ DigitsAt(str, p0 + 1, 2)
                 /\ ByteAt(str, p0 + 3) = Colon
                 /\ DigitsAt(str, p0 + 4, 2)
                 /\ ByteAt(str, p0 + 6) = Colon
                 /\ DigitsAt(str, p0 + 7, 2)
      p1 == IF clockOK THEN p0 + 9 ELSE p0
      fl == LeadDigits(str, p1 + 1)
      p2 == IF ByteAt(str, p1) = Dot /\ fl >= 1 THEN p1 + 1 + fl ELSE p1
      zoneOK == ByteAt(str, p2) \in {Plus, Dash} /\ DigitsAt(str, p2 + 1, 2)
      p3 == IF zoneOK THEN p2 + 3 ELSE p2
      p4 == IF zoneOK /\ ByteAt(str, p3) = Colon /\ DigitsAt(str, p3 + 1, 2)
            THEN p3 + 3 ELSE p3
      p5 == IF p4 > p3 /\ ByteAt(str, p4) = Colon /\ DigitsAt(str, p4 + 1, 2)
            THEN p4 + 3 ELSE p4
      p6 == IF ByteAt(str, p5) = Space /\ ByteAt(str, p5 + 1) = 66
               /\ ByteAt(str, p5 + 2) = 67
            THEN p5 + 3 ELSE p5
  IN IF dateOK THEN p6 ELSE -1

MatchesGrammar(str) == GrammarEnd(str) = Len(str)

\* C2: every input that does not fully match the grammar is rejected with a
\* decode error of the parser itself: none is accepted, none fails otherwise.
TsRejectsNonGrammar ==
  (pc = "done" /\ ~MatchesGrammar(arg.str)) => ret.kind = "errorf"

\* The seconds a zone section sign HH[:MM[:SS]] stands for, the sign applied to
\* the whole magnitude.
ZoneSeconds(z) ==
  LET sign == IF z[1] = Dash THEN -1 ELSE 1
      hh == UintVal(SubSeq(z, 2, 3), 10)
      mm == IF Len(z) >= 6 THEN UintVal(SubSeq(z, 5, 6), 10) ELSE 0
      ss == IF Len(z) >= 9 THEN UintVal(SubSeq(z, 8, 9), 10) ELSE 0
  IN sign * (hh * 3600 + mm * 60 + ss)

ZoneExample ==
  Bytes(<<"2", "0", "2", "4", "-", "0", "3", "-", "0", "5", " ", "1", "3", ":", "0", "4",
          ":", "0", "5", ".", "1", "2", "3", "4", "5", "6", "-", "0", "7", ":", "3", "0">>)

\* C3: the offset of an accepted zone section is sign * (HH*3600 + MM*60 + SS);
\* "2024-03-05 13:04:05.123456-07:30" yields 2024-03-05 13:04:05.123456 at
\* offset -27000 seconds.
TsZoneOffsetSigned ==
  /\ (pc = "done" /\ MatchesGrammar(arg.str) /\ arg.zone # <<>> /\ ret.kind = "ok")
       => ret.val.offset = ZoneSeconds(arg.zone)
  /\ (pc = "done" /\ arg.str = ZoneExample /\ arg.loc.isNil)
       => ret = Ok([year |-> 2024, month |-> 3, day |-> 5, hour |-> 13, minute |-> 4,
                    second |-> 5, nanosecond |-> 123456000, offset |-> 0 - 27000,
                    zone |-> ""])

EraExample ==
  Bytes(<<"0", "0", "4", "4", "-", "0", "1", "-", "0", "1", " ", "B", "C">>)

\* C4: a date-only input is accepted with each of the optional sections, hour,
\* minute and second are 0, and "0044-01-01 BC" yields the year -44.
TsDateOnlyAccepted ==
  /\ (pc = "done" /\ MatchesGrammar(arg.str) /\ arg.clock = <<>>)
       => (ret.kind = "ok" /\ ret.val.hour = 0 /\ ret.val.minute = 0
             /\ ret.val.second = 0)
  /\ (pc = "done" /\ arg.str = EraExample)
       => (ret.kind = "ok" /\ ret.val.year = 0 - 44)

\* The fraction of n digits with value f, in nanoseconds; digits beyond the
\* ninth are below the resolution.
FractionNanos(f, n) == IF n <= 9 THEN f * Pow(10, 9 - n) ELSE f \div Pow(10, n - 9)

\* C10: a fraction of n >= 1 digits with value f sets the nanosecond field to
\* f * 10^(9-n), for every n, and the sections after it are read from the byte
\* after its last digit.
TsFractionToNanos ==
  (pc = "done" /\ MatchesGrammar(arg.str) /\ arg.clock # <<>> /\ arg.frac # <<>>)
    => /\ ret.kind = "ok"
       /\ ret.val.nanosecond
            = FractionNanos(UintVal(Tail(arg.frac), 10), Len(arg.frac) - 1)

(***************************************************************************)
(* The COPY text escaper.                                                  *)
(***************************************************************************)
escapeCharCRasLF(c) ==
  IF c = Backslash THEN <<Backslash, Backslash>>
  ELSE IF c = Newline THEN <<Backslash, 110>>
  ELSE IF c = Return THEN <<Backslash, 110>>
  ELSE IF c = Tab THEN <<Backslash, LetterT>>
  ELSE <<c>>

\* The switch of the second loop: what one byte appends.
escapeChar(c) ==
  IF c = Backslash THEN <<Backslash, Backslash>>
  ELSE IF c = Newline THEN <<Backslash, 110>>
  ELSE IF c = Return THEN <<Backslash, 114>>
  ELSE IF c = Tab THEN <<Backslash, LetterT>>
  ELSE <<c>>

\* The second loop, from 0-based index i to the end of text.
RECURSIVE escapeRest(_, _, _)
escapeRest(result, text, i) ==
  IF i >= Len(text) THEN result
  ELSE escapeRest(result \o escapeChar(text[i + 1]), text, i + 1)

NeedEscape == {Backslash, Newline, Return, Tab}

appendEscapedText(buf, text) ==
  LET startPos == IndexAny(text, NeedEscape)
  IN IF startPos < 0 THEN buf \o text
     ELSE escapeRest(buf \o Slice(text, 0, startPos), text, startPos)

MaxTextLen == 3

TextAlphabet == NeedEscape \cup {97, 110}

TextExample == Bytes(<<"a", "\t", "b", "\\", "c">>)

TextInputs == SeqsUpTo(TextAlphabet, MaxTextLen) \cup {TextExample, Bytes(<<"a", "b", "c">>)}

TextBufs == {<<>>, Bytes(<<"x", "\t">>), Bytes(<<"\\">>)}

TextInit ==
  /\ pc = "start"
  /\ arg \in [buf : TextBufs, text : TextInputs]
  /\ wire = <<>>
  /\ ret = NoResult
  /\ NullTimeIdle

AppendEscapedText ==
  /\ pc = "start"
  /\ ret' = Ok(appendEscapedText(arg.buf, arg.text))
  /\ pc' = "done"
  /\ UNCHANGED <<arg, wire, nt, scanned, scanErr, valueOut>>

TextNext == AppendEscapedText

SpecText == TextInit /\ [][TextNext]_vars

\* The escaped form stated byte by byte: two characters for backslash, newline,
\* carriage return and tab, the byte itself otherwise.
RECURSIVE EscapedForm(_)
EscapedForm(text) ==
  IF text = <<>> THEN <<>>
  ELSE (CASE text[1] = 92 -> <<92, 92>>
          [] text[1] = 10 -> <<92, 110>>
          [] text[1] = 13 -> <<92, 114>>
          [] text[1] = 9 -> <<92, 116>>
          [] OTHER -> <<text[1]>>) \o EscapedForm(Tail(text))

\* C6: appendEscapedText returns buf unchanged followed by the escaped form of
\* text; a text with none of the four characters is appended as it is, and
\* "a<TAB>b\c" becomes "a\tb\\c".
EscapedTextAppended ==
  pc = "done" =>
    /\ ret = Ok(arg.buf \o EscapedForm(arg.text))
    /\ (\A i \in 1..Len(arg.text) : arg.text[i] \notin {92, 10, 13, 9})
         => ret.val = arg.buf \o arg.text
    /\ arg.text = TextExample
         => ret.val = arg.buf \o Bytes(<<"a", "\\", "t", "b", "\\", "\\", "c">>)

\* "a<TAB>b\c" has been appended to a buffer that is not empty.
EscapedTextWitness ==
  /\ pc = "done"
  /\ arg.text = TextExample
  /\ arg.buf = Bytes(<<"x", "\t">>)
  /\ ret.val = Bytes(<<"x", "\t", "a", "\\", "t", "b", "\\", "\\", "c">>)

(***************************************************************************)
(* NullTime: any sequence of Scan and Value calls.                         *)
(***************************************************************************)
MaxScans == 3

Instant(year, nanosecond, offset) ==
  [year |-> year, month |-> 3, day |-> 5, hour |-> 13, minute |-> 4, second |-> 5,
   nanosecond |-> nanosecond, offset |-> offset, zone |-> ""]

ScanInstants == {Instant(2024, 123456000, 0 - 27000), Instant(1970, 0, 0), ZeroTime}

ScanValues ==
  {TimeValue(t) : t \in ScanInstants}
    \cup {NilValue, IntValue(0), IntValue(7),
          Float64Value(FiniteFloat(FALSE, <<1>>, 0)), BoolValue(TRUE),
          StringValue(Bytes(<<"2", "0", "2", "4">>)), BytesValue(<<0>>)}

NullTimeInit ==
  /\ pc = "start"
  /\ arg = NilValue
  /\ wire = <<>>
  /\ ret = NoResult
  /\ NullTimeIdle

\* nt.Scan(value)
Scan(value) ==
  /\ Len(scanned) < MaxScans
  /\ nt' = assertTime(value)
  /\ scanErr' = "nil"
  /\ scanned' = Append(scanned, value)
  /\ arg' = value
  /\ pc' = "scanned"
  /\ UNCHANGED <<wire, ret, valueOut>>

\* nt.Value()
NullTimeValue ==
  /\ valueOut' = nullTimeValue(nt)
  /\ ret' = Ok("nil")
  /\ pc' = "valued"
  /\ UNCHANGED <<arg, wire, nt, scanned, scanErr>>

NullTimeNext == (\E value \in ScanValues : Scan(value)) \/ NullTimeValue

SpecNullTime == NullTimeInit /\ [][NullTimeNext]_vars

LastScanned == IF scanned = <<>> THEN NilValue ELSE scanned[Len(scanned)]

\* C8: no Scan returns an error; after each Scan, Valid is true exactly when
\* the value scanned last was an instant; Value() returns that instant when
\* valid and nil otherwise, never an instant of an earlier Scan.
NullTimeFollowsLastScan ==
  /\ scanErr \in {"none", "nil"}
  /\ nt.Valid <=> LastScanned.kind = "time"
  /\ pc = "valued" =>
       /\ ret = Ok("nil")
       /\ valueOut = IF LastScanned.kind = "time" THEN LastScanned ELSE NilValue

\* Value() after an instant was scanned and then a value that is no instant.
NullTimeWitness ==
  /\ pc = "valued"
  /\ Len(scanned) >= 2
  /\ scanned[Len(scanned) - 1].kind = "time"
  /\ scanned[Len(scanned) - 1].t # ZeroTime
  /\ LastScanned.kind = "int64"
  /\ ~nt.Valid
  /\ valueOut = NilValue

(***************************************************************************)
(* encode and decode.                                                      *)
(***************************************************************************)
\* s without its trailing '0' bytes.
TrimZeros(s) ==
  LET keep == {k \in 0..Len(s) : k = 0 \/ s[k] # 48}
  IN SubSeq(s, 1, CHOOSE k \in keep : \A j \in keep : j <= k)

\* The year as time.Format writes it: at least four digits, '-' before them
\* for a year below zero.
FormatYear(y) ==
  IF y < 0 THEN <<Dash>> \o ZeroPad(FormatUint(0 - y, 10), 4)
  ELSE ZeroPad(FormatUint(y, 10), 4)

Pad2(n) == ZeroPad(FormatUint(n, 10), 2)

\* ".999999999": the nanoseconds without trailing zeros, nothing when zero.
FormatFraction(nsec) ==
  LET digits == TrimZeros(ZeroPad(FormatUint(nsec, 10), 9))
  IN IF digits = <<>> THEN <<>> ELSE <<Dot>> \o digits

\* "Z07:00": Z at offset zero, else the sign, hours and minutes of the offset.
FormatZone(offset) ==
  IF offset = 0 THEN <<90>>
  ELSE LET minutes == IF offset < 0 THEN (0 - offset) \div 60 ELSE offset \div 60
           sign == IF offset < 0 /\ minutes > 0 THEN Dash ELSE Plus
       IN <<sign>> \o Pad2(minutes \div 60) \o <<Colon>> \o Pad2(minutes % 60)

\* v.Format(time.RFC3339Nano), layout "2006-01-02T15:04:05.999999999Z07:00".
FormatRFC3339Nano(t) ==
  FormatYear(t.year) \o <<Dash>> \o Pad2(t.month) \o <<Dash>> \o Pad2(t.day)
    \o <<84>> \o Pad2(t.hour) \o <<Colon>> \o Pad2(t.minute)
    \o <<Colon>> \o Pad2(t.second) \o FormatFraction(t.nanosecond)
    \o FormatZone(t.offset)

\* fmt.Sprintf("%t", v)
FormatBool(b) ==
  IF b THEN Bytes(<<"t", "r", "u", "e">>) ELSE Bytes(<<"f", "a", "l", "s", "e">>)

encode(parameterStatus, x, pgtypOid) ==
  CASE x.kind = "int64" -> Ok(FormatInt(x.n))
    [] x.kind = "float32" -> Ok(FormatFloat(x.f, 9))
    [] x.kind = "float64" -> Ok(FormatFloat(x.f, 17))
    [] x.kind = "bytes" ->
         IF pgtypOid = "T_bytea"
         THEN Ok(encodeBytea(parameterStatus.serverVersion, x.s))
         ELSE Ok(x.s)
    [] x.kind = "string" ->
         IF pgtypOid = "T_bytea" THEN Ok(HexMarker \o HexEncode(x.s)) ELSE Ok(x.s)
    [] x.kind = "bool" -> Ok(FormatBool(x.b))
    [] x.kind = "time" -> Ok(FormatRFC3339Nano(x.t))
    [] OTHER -> Errorf("encode: unknown type")

\* parseTs and parseBytea as decode returns them: a value of the dynamic type.
AsTime(r) == IF r.kind = "ok" THEN Ok(TimeValue(r.val)) ELSE r
AsBytes(r) == IF r.kind = "ok" THEN Ok(BytesValue(r.val)) ELSE r

\* s[0] == 't': indexing the empty slice is a runtime panic.
decodeBool(s) ==
  IF Len(s) = 0 THEN Panic("index out of range") ELSE Ok(BoolValue(s[1] = LetterT))

\* strconv.ParseInt(string(s), 10, 64), any error turned into errorf.
decodeInt(s) ==
  LET r == ParseInt(s, 10, 64)
  IN IF r.err # "nil" THEN Errorf("strconv.ParseInt") ELSE Ok(IntValue(r.n))

\* strconv.ParseFloat(string(s), bits), any error turned into errorf; the
\* result is a float64 for either width.
decodeFloat(s, bits) ==
  LET r == ParseFloat(s, bits)
  IN IF r.err # "nil" THEN Errorf("strconv.ParseFloat") ELSE Ok(Float64Value(r.f))

\* local is time.Local of the process, which time.Parse consults for a text
\* with a zone.
decode(parameterStatus, s, typ, local) ==
  CASE typ = "T_bytea" -> AsBytes(parseBytea(s))
    [] typ = "T_timestamptz" -> AsTime(parseTs(parameterStatus.currentLocation, s))
    [] typ \in {"T_timestamp", "T_date"} -> AsTime(parseTs(NoLocation, s))
    [] typ = "T_time" -> AsTime(mustParse("15:04:05", typ, s, local))
    [] typ = "T_timetz" -> AsTime(mustParse("15:04:05-07", typ, s, local))
    [] typ = "T_bool" -> decodeBool(s)
    [] typ \in {"T_int8", "T_int2", "T_int4"} -> decodeInt(s)
    [] typ \in {"T_float4", "T_float8"} ->
         decodeFloat(s, IF typ = "T_float4" THEN 32 ELSE 64)
    [] OTHER -> Ok(BytesValue(s))

(***************************************************************************)
(* The codec: a value is encoded under a type identifier and the text is   *)
(* decoded under the same identifier, or a text received from a server is  *)
(* decoded.                                                                *)
(***************************************************************************)
MaxCodecLen == 2

TypeIds ==
  {"T_bool", "T_bytea", "T_int8", "T_int2", "T_int4", "T_float4", "T_float8",
   "T_date", "T_time", "T_timetz", "T_timestamp", "T_timestamptz", "T_text"}

\* time.Local of the process.
Locals == {UTC, Phoenix}

ParameterStatuses ==
  [serverVersion : {HexVersion - 1, HexVersion}, currentLocation : Locations]

CodecInstants ==
  {[year |-> y, month |-> 3, day |-> 5, hour |-> h, minute |-> 4, second |-> 5,
    nanosecond |-> n, offset |-> o, zone |-> ""] :
     y \in {1970, 2024}, h \in {0, 13}, n \in {0, 1, 123456000, 999999999},
     o \in {0, 0 - 27000, 19800}}

CodecBytes == SeqsUpTo({0, Backslash, LetterT, 49, 255}, MaxCodecLen)

\* Floats of 32 bits given exactly: 0, -0, 1, -2.5, 16777216, 2^-10, 3 * 2^-10,
\* 2^-18, 2^-30, the infinities and not-a-number.
CodecFloats ==
  {FiniteFloat(neg, <<>>, 0) : neg \in BOOLEAN}
    \cup {FiniteFloat(FALSE, <<1>>, 0), FiniteFloat(TRUE, <<2, 5>>, 0 - 1),
          FiniteFloat(FALSE, <<1, 6, 7, 7, 7, 2, 1, 6>>, 0),
          FiniteFloat(FALSE, <<9, 7, 6, 5, 6, 2, 5>>, 0 - 10),
          FiniteFloat(FALSE, <<2, 9, 2, 9, 6, 8, 7, 5>>, 0 - 10),
          FiniteFloat(TRUE, <<3, 8, 1, 4, 6, 9, 7, 2, 6, 5, 6, 2, 5>>, 0 - 18),
          FiniteFloat(FALSE, <<9, 3, 1, 3, 2, 2, 5, 7, 4, 6, 1, 5, 4, 7, 8, 5, 1, 5, 6, 2, 5>>,
                      0 - 30),
          InfFloat(FALSE), InfFloat(TRUE), NaNFloat}

CodecValues ==
  {IntValue(n) : n \in {0, 0 - 1, 42, 0 - 32768, 2147483647, 0 - 2147483647}}
    \cup {Float32Value(f) : f \in CodecFloats}
    \cup {Float64Value(f) : f \in CodecFloats}
    \cup {BoolValue(b) : b \in BOOLEAN}
    \cup {BytesValue(b) : b \in CodecBytes}
    \cup {StringValue(Bytes(<<"a", "b">>)), NilValue}
    \cup {TimeValue(t) : t \in CodecInstants}

\* Texts for the float identifiers: numbers in base 10 and 16, with underscores,
\* the special names, numbers at the overflow thresholds, and malformed ones.
FloatTexts ==
  { Bytes(<<"1">>),
    Bytes(<<"-", "0">>),
    Bytes(<<"1", ".", "5">>),
    Bytes(<<".", "5">>),
    Bytes(<<"5", ".">>),
    Bytes(<<"-", "2", ".", "5", "0">>),
    Bytes(<<"1", "e", "3">>),
    Bytes(<<"1", "E", "-", "2">>),
    Bytes(<<"1", "e">>),
    Bytes(<<"1", "e", "+">>),
    Bytes(<<"1", "0", "0", "e", "-", "1", "2", "3", "4", "5", "6">>),
    Bytes(<<"0", ".", "0", "1", "e", "9", "9", "9", "9", "9">>),
    Bytes(<<"0", "x", "1", "p", "-", "2">>),
    Bytes(<<"0", "x", "1">>),
    Bytes(<<"0", "X", ".", "8", "P", "1">>),
    Bytes(<<"0", "x", "1", "_", "f", "p", "0">>),
    Bytes(<<"1", "_", "0">>),
    Bytes(<<"_", "1">>),
    Bytes(<<"1", "_", "_", "0">>),
    Bytes(<<"1", "_">>),
    Bytes(<<"i", "n", "f">>),
    Bytes(<<"-", "I", "n", "f", "i", "n", "i", "t", "y">>),
    Bytes(<<"+", "I", "N", "F">>),
    Bytes(<<"i", "n", "f", "i", "n">>),
    Bytes(<<"n", "a", "n">>),
    Bytes(<<"N", "a", "N">>),
    Bytes(<<"+", "n", "a", "n">>),
    Bytes(<<"0", ".", "1">>),
    Bytes(<<"1", "6", "7", "7", "7", "2", "1", "7">>),
    Bytes(<<"4", "2", "9", "4", "9", "6", "7", "2", "9", "6">>),
    Bytes(<<"1", "e", "3", "9">>),
    Bytes(<<"1", "e", "4", "0", "0">>),
    Bytes(<<"1", "e", "-", "4", "0", "0">>),
    Bytes(<<"1", "2", "3", "4", "5", "6", "7", "8", "9", "0", "1", "2", "3", "4", "5", "6", "7", "8", "9", "0">>),
    Bytes(<<"0", ".", "0", "0", "0", "9", "7", "6", "5", "6", "2", "5", "0", "0">>),
    Bytes(<<"1", ".", "5", ".", "2">>),
    Bytes(<<"x">>),
    Bytes(<<"+">>),
    Bytes(<<".">>),
    Bytes(<<" ", "1">>),
    Bytes(<<"3", ".", "4", "0", "2", "8", "2", "3", "5", "e", "3", "8">>),
    Bytes(<<"3", ".", "4", "0", "2", "8", "2", "3", "6", "e", "3", "8">>),
    Bytes(<<"1", ".", "7", "9", "7", "6", "9", "3", "1", "3", "4", "8", "6", "2", "3", "1", "5", "8", "e", "3", "0", "8">>),
    Bytes(<<"1", ".", "7", "9", "7", "6", "9", "3", "1", "3", "4", "8", "6", "2", "3", "1", "5", "9", "e", "3", "0", "8">>),
    Bytes(<<"0", "x", "1", ".", "f", "f", "f", "f", "f", "f", "f", "f", "f", "f", "f", "f", "f", "8", "p", "1", "0", "2", "3">>),
    Bytes(<<"0", "x", "1", ".", "f", "f", "f", "f", "f", "f", "f", "f", "f", "f", "f", "f", "f", "7", "p", "1", "0", "2", "3">>),
    Bytes(<<"0", "x", "1", "p", "1", "0", "2", "4">>),
    Bytes(<<"0", "x", "1", ".", "f", "f", "f", "f", "f", "f", "p", "1", "2", "7">>),
    Bytes(<<"0", "x", "1", ".", "f", "f", "f", "f", "f", "e", "p", "1", "2", "7">>) }

\* Texts for the time identifiers: clocks with and without a fraction and a
\* zone, out of range and malformed ones.
TimeTexts ==
  { Bytes(<<"1", "3", ":", "0", "4", ":", "0", "5">>),
    Bytes(<<"1", ":", "0", "4", ":", "0", "5">>),
    Bytes(<<"2", "3", ":", "5", "9", ":", "5", "9", ".", "5">>),
    Bytes(<<"1", "3", ":", "0", "4", ":", "0", "5", ".", "1", "2", "3", "4", "5", "6", "7", "8", "9", "0", "1", "2">>),
    Bytes(<<"1", "3", ":", "0", "4", ":", "0", "5", ",", "2", "5">>),
    Bytes(<<"2", "4", ":", "0", "0", ":", "0", "0">>),
    Bytes(<<"1", "3", ":", "6", "0", ":", "0", "5">>),
    Bytes(<<"1", "3", ":", "0", "4">>),
    Bytes(<<"1", "3", ":", "0", "4", ":", "5">>),
    Bytes(<<"1", "3", ":", "0", "4", ":", "0", "5", ".">>),
    Bytes(<<"1", "3", ":", "0", "4", ":", "0", "5", " ">>),
    Bytes(<<"1", "3", ":", "0", "4", ":", "0", "5", "-", "0", "7">>),
    Bytes(<<"1", "3", ":", "0", "4", ":", "0", "5", "+", "0", "0">>),
    Bytes(<<"1", "3", ":", "0", "4", ":", "0", "5", "-", "0", "7", ":", "3", "0">>),
    Bytes(<<"1", "3", ":", "0", "4", ":", "0", "5", ".", "5", "+", "0", "5", ":", "3", "0">>),
    Bytes(<<"1", "3", ":", "0", "4", ":", "0", "5", "-", "2", "4">>),
    Bytes(<<"1", "3", ":", "0", "4", ":", "0", "5", "-", "2", "5">>),
    Bytes(<<"1", "3", ":", "0", "4", ":", "0", "5", "+", "0", "5", ":", "6", "1">>),
    Bytes(<<"1", "3", ":", "0", "4", ":", "0", "5", "-", "7">>),
    Bytes(<<"1", "3", ":", "0", "4", ":", "0", "5", "Z">>),
    Bytes(<<"1", ":">>),
    Bytes(<<"1">>) }

ServerTexts ==
  SeqsUpTo({LetterT, 102, 49, Dash}, MaxCodecLen) \cup FloatTexts \cup TimeTexts

\* The texts decoded under an identifier: an integer identifier gets no text of
\* ten or more bytes, whose number may lie beyond TLC's integers.
ServerTextsFor(typ) ==
  IF typ \in {"T_int8", "T_int2", "T_int4"} THEN {t \in ServerTexts : Len(t) <= 9}
  ELSE ServerTexts

CodecInit ==
  /\ \/ /\ pc = "start"
        /\ arg \in [src : {"client"}, parameterStatus : ParameterStatuses,
                    local : Locals, x : CodecValues, typ : TypeIds]
        /\ wire = <<>>
     \/ /\ pc = "wire"
        /\ arg \in [src : {"server"}, parameterStatus : ParameterStatuses,
                    local : Locals, x : {NilValue}, typ : TypeIds]
        /\ wire \in ServerTextsFor(arg.typ)
  /\ ret = NoResult
  /\ NullTimeIdle

Encode ==
  /\ pc = "start"
  /\ LET e == encode(arg.parameterStatus, arg.x, arg.typ)
     IN IF e.kind = "ok"
        THEN wire' = e.val /\ pc' = "wire" /\ ret' = ret
        ELSE wire' = wire /\ pc' = "done" /\ ret' = e
  /\ UNCHANGED <<arg, nt, scanned, scanErr, valueOut>>

Decode ==
  /\ pc = "wire"
  /\ ret' = decode(arg.parameterStatus, wire, arg.typ, arg.local)
  /\ pc' = "done"
  /\ UNCHANGED <<arg, wire, nt, scanned, scanErr, valueOut>>

CodecNext == Encode \/ Decode

SpecCodec == CodecInit /\ [][CodecNext]_vars

\* The value kind that matches a type identifier.
KindMatches(kind, typ) ==
  \/ kind = "int64" /\ typ \in {"T_int2", "T_int4", "T_int8"}
  \/ kind = "bool" /\ typ = "T_bool"
  \/ kind = "bytes" /\ typ = "T_bytea"
  \/ kind = "time" /\ typ \in {"T_timestamp", "T_timestamptz"}

\* The same instant: all fields but the name of the zone.
SameInstant(t, u) == [t EXCEPT !.zone = ""] = [u EXCEPT !.zone = ""]

\* C5: for every non-float type identifier and value of the matching kind, the
\* text of encode is accepted by decode under the same identifier and denotes
\* the same value.
CodecRoundTrip ==
  (pc = "done" /\ arg.src = "client" /\ KindMatches(arg.x.kind, arg.typ))
    => /\ ret.kind = "ok"
       /\ ret.val.kind = arg.x.kind
       /\ ret.val.n = arg.x.n
       /\ ret.val.s = arg.x.s
       /\ ret.val.b = arg.x.b
       /\ SameInstant(ret.val.t, arg.x.t)

\* C9: decoding under the boolean identifier returns true exactly when the
\* input is not empty and its first byte is 't', false for every other input,
\* the empty one included, and raises no fault.
BoolDecodeTotal ==
  (pc = "done" /\ arg.src = "server" /\ arg.typ = "T_bool")
    => ret = Ok(BoolValue(Len(wire) > 0 /\ wire[1] = 116))

====
